---------------------------- MODULE Spec2Model ----------------------------
(***************************************************************************)
(* Model of the N-body simulation in src/main.cpp: argument parsing        *)
(* (input_verify_stoi), configuration, creation of the bodies and the      *)
(* main loop (force accumulation with fsum, Euler step with integrate,     *)
(* output).                                                                *)
(*                                                                         *)
(* A C++ double is modelled as a decimal floating-point number with a      *)
(* five-digit mantissa, an unbounded exponent, one zero, two infinities    *)
(* and NaN.  Every arithmetic operation rounds its exact result to five    *)
(* significant digits (half away from zero), as IEEE arithmetic rounds to  *)
(* 53 bits.  Division by zero, Inf*0 and Inf-Inf follow IEEE 754; the sign  *)
(* of a zero is not kept, a zero divisor counts as +0.                     *)
(***************************************************************************)
EXTENDS Integers, Sequences, FiniteSets, TLC

(***************************************************************************)
(* Bounds of the model.                                                    *)
(***************************************************************************)
MaxBodies == 3

MaxIterations == 2

(***************************************************************************)
(* double                                                                  *)
(***************************************************************************)
\* An operator whose name ends in V works on the values of its arguments:
\* CHOOSE r \in {F(x) : x \in {a}} : TRUE is F(a) with a evaluated once,
\* however often F uses it.
Pow10(k) == 10 ^ k

Abs(n) == IF n < 0 THEN -n ELSE n

Sgn(n) == IF n < 0 THEN -1 ELSE IF n = 0 THEN 0 ELSE 1

\* mantissas of finite non-zero values lie in MantLo .. MantHi - 1
MantLo == Pow10(4)

MantHi == Pow10(5)

Zero == [k |-> "fin", m |-> 0, e |-> 0]

NaN == [k |-> "nan", m |-> 0, e |-> 0]

Inf(s) == [k |-> "inf", m |-> s, e |-> 0]

IsFinite(a) == a.k = "fin"

RECURSIVE NumDigits(_)
NumDigits(n) == IF n < 10 THEN 1 ELSE 1 + NumDigits(n \div 10)

\* the value s * n * 10^e, n of d > 5 digits, rounded to five digits
RoundDown(s, n, e, d) ==
  LET drop == d - 5
      q    == ((n \div Pow10(drop - 1)) + 5) \div 10
  IN  IF q = MantHi
      THEN [k |-> "fin", m |-> s * MantLo, e |-> e + drop + 1]
      ELSE [k |-> "fin", m |-> s * q, e |-> e + drop]

RoundMagV(s, n, e) ==
  LET d == NumDigits(n)
  IN  IF d <= 5
      THEN [k |-> "fin", m |-> s * n * Pow10(5 - d), e |-> e - (5 - d)]
      ELSE RoundDown(s, n, e, d)

\* the value s * n * 10^e (n > 0) rounded to five significant digits
RoundMag(s, n, e) ==
  CHOOSE r \in {RoundMagV(x, y, z) : x \in {s}, y \in {n}, z \in {e}} : TRUE

\* the double nearest to n * 10^e
Norm(n, e) == IF n = 0 THEN Zero ELSE RoundMag(Sgn(n), Abs(n), e)

\* conversion int -> double (exact for |n| < 10^5)
IntToD(n) == Norm(n, 0)

\* a decimal literal n * 10^e
Lit(n, e) == Norm(n, e)

NegV(a) ==
  IF a.k = "nan" THEN NaN
  ELSE IF a.k = "inf" THEN Inf(-a.m)
  ELSE [a EXCEPT !.m = -a.m]

DNeg(a) == CHOOSE r \in {NegV(x) : x \in {a}} : TRUE

\* truncation toward zero of n / 10^k
TruncDiv(n, k) == Sgn(n) * (Abs(n) \div Pow10(k))

FinAdd(a, b) ==
  IF a.m = 0 THEN b
  ELSE IF b.m = 0 THEN a
  ELSE LET hi   == IF a.e >= b.e THEN a ELSE b
           lo   == IF a.e >= b.e THEN b ELSE a
           diff == hi.e - lo.e
       IN  IF diff > 9 THEN hi
           ELSE IF diff <= 4
           THEN Norm(hi.m * Pow10(diff) + lo.m, lo.e)
           ELSE Norm(hi.m * Pow10(4) + TruncDiv(lo.m, diff - 4), hi.e - 4)

AddV(a, b) ==
  IF a.k = "nan" \/ b.k = "nan" THEN NaN
  ELSE IF a.k = "inf" /\ b.k = "inf"
       THEN IF a.m = b.m THEN a ELSE NaN
  ELSE IF a.k = "inf" THEN a
  ELSE IF b.k = "inf" THEN b
  ELSE FinAdd(a, b)

DAdd(a, b) == CHOOSE r \in {AddV(x, y) : x \in {a}, y \in {b}} : TRUE

DSub(a, b) == DAdd(a, DNeg(b))

\* |a.m| * |b.m| < 10^10 does not fit 32 bits: with |b.m| = bh * 1000 + bl
\* the product is q * 1000 + r, r < 1000.  q has six or seven digits, so
\* rounding drops at least one digit of q and r never decides the result.
FinMul(a, b) ==
  IF a.m = 0 \/ b.m = 0 THEN Zero
  ELSE LET A  == Abs(a.m)
           B  == Abs(b.m)
           bh == B \div 1000
           bl == B % 1000
           q  == A * bh + ((A * bl) \div 1000)
       IN  RoundMag(Sgn(a.m) * Sgn(b.m), q, a.e + b.e + 3)

MulV(a, b) ==
  IF a.k = "nan" \/ b.k = "nan" THEN NaN
  ELSE IF a.k = "inf" \/ b.k = "inf"
       THEN IF a.m = 0 \/ b.m = 0 THEN NaN ELSE Inf(Sgn(a.m) * Sgn(b.m))
  ELSE FinMul(a, b)

DMul(a, b) == CHOOSE r \in {MulV(x, y) : x \in {a}, y \in {b}} : TRUE

\* the first n digits of rem / B after the digits already in acc
RECURSIVE LongDiv(_, _, _, _)
LongDiv(rem, B, n, acc) ==
  IF n = 0 THEN acc
  ELSE CHOOSE r \in {LongDiv(rem1, B, n - 1, acc1) :
                        rem1 \in {(rem % B) * 10},
                        acc1 \in {acc * 10 + (rem \div B)}} : TRUE

FinDiv(a, b) ==
  IF a.m = 0 THEN Zero
  ELSE RoundMag(Sgn(a.m) * Sgn(b.m),
                LongDiv(Abs(a.m), Abs(b.m), 7, 0),
                a.e - b.e - 6)

DivV(a, b) ==
  IF a.k = "nan" \/ b.k = "nan" THEN NaN
  ELSE IF a.k = "inf"
       THEN IF b.k = "inf" THEN NaN
            ELSE Inf(a.m * (IF b.m < 0 THEN -1 ELSE 1))
  ELSE IF b.k = "inf" THEN Zero
  ELSE IF b.m = 0
       THEN IF a.m = 0 THEN NaN ELSE Inf(Sgn(a.m))
  ELSE FinDiv(a, b)

DDiv(a, b) == CHOOSE r \in {DivV(x, y) : x \in {a}, y \in {b}} : TRUE

\* s * s <= M * 10^6 for s < 10^6, without forming either product
SqLeq(s, M) ==
  LET sh == s \div 1000
      sl == s % 1000
      T  == 2 * sh * sl * 1000 + sl * sl
      th == T \div 1000000
      tl == T % 1000000
  IN  \/ sh * sh + th < M
      \/ sh * sh + th = M /\ tl = 0

\* the largest s in lo .. hi with s * s <= M * 10^6  (lo satisfies it)
RECURSIVE ISqrt(_, _, _)
ISqrt(lo, hi, M) ==
  IF lo = hi THEN lo
  ELSE CHOOSE r \in {IF SqLeq(mid, M) THEN ISqrt(mid, hi, M)
                                        ELSE ISqrt(lo, mid - 1, M) :
                        mid \in {(lo + hi + 1) \div 2}} : TRUE

SqrtV(a) ==
  IF a.k = "nan" THEN NaN
  ELSE IF a.k = "inf" THEN (IF a.m > 0 THEN a ELSE NaN)
  ELSE IF a.m = 0 THEN Zero
  ELSE IF a.m < 0 THEN NaN
  ELSE LET even == a.e % 2 = 0
           M    == IF even THEN a.m ELSE a.m * 10
           E    == IF even THEN a.e ELSE a.e - 1
       IN  RoundMag(1, ISqrt(Pow10(5), Pow10(6) - 1, M), (E \div 2) - 3)

DSqrt(a) == CHOOSE r \in {SqrtV(x) : x \in {a}} : TRUE


(***************************************************************************)
(* std::stoi on an argument, a sequence of one-character strings.          *)
(***************************************************************************)
INT_MAX == 2147483647

DigitChars == <<"0", "1", "2", "3", "4", "5", "6", "7", "8", "9">>

IsDigit(c) == \E d \in 1..10 : DigitChars[d] = c

DigitVal(c) == (CHOOSE d \in 1..10 : DigitChars[d] = c) - 1

IsSpace(c) == c = " "

RECURSIVE SkipSpace(_, _)
SkipSpace(arg, p) ==
  IF p <= Len(arg) /\ IsSpace(arg[p]) THEN SkipSpace(arg, p + 1) ELSE p

\* the digits of arg from index p on, accumulated with the sign applied;
\* over is set once the value has left the range of int
RECURSIVE Accumulate(_, _, _, _, _)
Accumulate(arg, p, neg, acc, over) ==
  IF p > Len(arg) \/ ~IsDigit(arg[p])
  THEN [val |-> acc, pos |-> p - 1, over |-> over]
  ELSE LET d    == DigitVal(arg[p])
           fits == /\ ~over
                   /\ IF neg
                      THEN \/ acc > -(INT_MAX \div 10)
                           \/ acc = -(INT_MAX \div 10) /\ d <= (INT_MAX % 10) + 1
                      ELSE \/ acc < INT_MAX \div 10
                           \/ acc = INT_MAX \div 10 /\ d <= INT_MAX % 10
           next == IF neg THEN acc * 10 - d ELSE acc * 10 + d
       IN  CHOOSE r \in {Accumulate(arg, p + 1, neg, acc1, over1) :
                            acc1 \in {IF fits THEN next ELSE acc},
                            over1 \in {~fits}} : TRUE

\* kind is "ok", "invalid_argument" or "out_of_range"; pos is the number of
\* characters consumed
stoi(arg) ==
  LET p0   == SkipSpace(arg, 1)
      sign == p0 <= Len(arg) /\ arg[p0] \in {"+", "-"}
      neg  == sign /\ arg[p0] = "-"
      p1   == IF sign THEN p0 + 1 ELSE p0
  IN  IF p1 > Len(arg) \/ ~IsDigit(arg[p1])
      THEN [kind |-> "invalid_argument", val |-> 0, pos |-> 0]
      ELSE LET r == Accumulate(arg, p1, neg, 0, FALSE)
           IN  IF r.over
               THEN [kind |-> "out_of_range", val |-> 0, pos |-> 0]
               ELSE [kind |-> "ok", val |-> r.val, pos |-> r.pos]

\* what input_verify_stoi writes to std::cerr for an argument
Message(arg) ==
  LET r == stoi(arg)
  IN  IF r.kind = "invalid_argument" THEN "Invalid number"
      ELSE IF r.kind = "out_of_range" THEN "Number out of range"
      ELSE IF r.pos < Len(arg) THEN "Trailing characters after number"
      ELSE "none"

(***************************************************************************)
(* Command lines.                                                          *)
(***************************************************************************)
RECURSIVE NatToDecimal(_)
NatToDecimal(n) ==
  IF n < 10 THEN <<DigitChars[n + 1]>>
  ELSE NatToDecimal(n \div 10) \o <<DigitChars[(n % 10) + 1]>>

ToDecimal(n) == IF n < 0 THEN <<"-">> \o NatToDecimal(-n) ELSE NatToDecimal(n)

\* The arguments tried: decimal numbers up to the bounds, a word, a number
\* beyond the range of int, a negative step and a fractional step.
TooBig == <<"9", "9", "9", "9", "9", "9", "9", "9", "9", "9", "9">>

BodiesArgs == {ToDecimal(n) : n \in 1..MaxBodies} \cup {<<"x">>}

IterationsArgs == {ToDecimal(MaxIterations), TooBig}

StepArgs == {<<"-", "1">>, <<"0", ".", "5">>}

CommandLines ==
  {<<>>}
    \cup {<<a>> : a \in BodiesArgs}
    \cup {<<a, b>> : a \in BodiesArgs, b \in IterationsArgs}
    \cup {<<a, b, c>> : a \in BodiesArgs, b \in IterationsArgs, c \in StepArgs}

Program == <<".", "/", "m", "a", "i", "n">>

Argv(line) == [p \in 0..Len(line) |-> IF p = 0 THEN Program ELSE line[p]]

\* values an int that was never written may hold
GarbageInts == {-1, 0, 1}

(***************************************************************************)
(* body                                                                    *)
(***************************************************************************)
C == Lit(101, -2)

Body(m, x, y, v, w) ==
  [m |-> m, x |-> x, y |-> y, v |-> v, w |-> w, f |-> Zero, g |-> Zero]

\* the constructor draws m = 1 + Weibull >= 1 and x, y, v, w from normal
\* distributions around 0
InitBodies ==
  { Body(IntToD(1), Zero, Zero, Zero, Zero),
    Body(IntToD(1), IntToD(10), Zero, Zero, Zero),
    Body(IntToD(2), IntToD(3), IntToD(4), Lit(5, -1), Lit(-5, -1)) }

xvec(computed, affecting) == DSub(affecting.x, computed.x)

yvec(computed, affecting) == DSub(affecting.y, computed.y)

bodyd(computed, affecting) ==
  DSqrt(DAdd(DMul(xvec(computed, affecting), xvec(computed, affecting)),
             DMul(yvec(computed, affecting), yvec(computed, affecting))))

Cube(d) == DMul(DMul(d, d), d)

fscal(computed, affecting) ==
  DDiv(DMul(DMul(C, computed.m), affecting.m), Cube(bodyd(computed, affecting)))

\* fsum with the separation squared, not cubed, in the divisor
fsumInverseSquare(computed, affecting) ==
  LET d  == bodyd(computed, affecting)
      sc == DDiv(DMul(DMul(C, computed.m), affecting.m), DMul(d, d))
  IN  [computed EXCEPT
         !.f = DAdd(@, DMul(sc, xvec(computed, affecting))),
         !.g = DAdd(@, DMul(sc, yvec(computed, affecting)))]

fsum(computed, affecting) ==
  [computed EXCEPT
     !.f = DAdd(@, DMul(fscal(computed, affecting), xvec(computed, affecting))),
     !.g = DAdd(@, DMul(fscal(computed, affecting), yvec(computed, affecting)))]

\* integrate with the position advanced by the velocity from before the call
integrateOldVelocity(computed, dt) ==
  [computed EXCEPT
     !.v = DAdd(@, DDiv(DMul(dt, computed.f), computed.m)),
     !.w = DAdd(@, DDiv(DMul(dt, computed.g), computed.m)),
     !.x = DAdd(@, DMul(dt, computed.v)),
     !.y = DAdd(@, DMul(dt, computed.w))]

integrate(computed, dt) ==
  LET v1 == DAdd(computed.v, DDiv(DMul(dt, computed.f), computed.m))
      w1 == DAdd(computed.w, DDiv(DMul(dt, computed.g), computed.m))
  IN  [computed EXCEPT !.v = v1,
                       !.w = w1,
                       !.x = DAdd(@, DMul(dt, v1)),
                       !.y = DAdd(@, DMul(dt, w1))]

\* the reset left out
KeepForce(b) == b

ZeroForce(b) == [b EXCEPT !.f = Zero, !.g = Zero]

(***************************************************************************)
(* main                                                                    *)
(***************************************************************************)
DefaultBodies == 10

DefaultIterations == 100

DefaultStep == 1

VARIABLES
  argv,         \* argv[0 .. argc-1]
  input,        \* int input[argc]: a cell is written or not
  cerr,         \* the messages input_verify_stoi wrote, by argument index
  pc,           \* position in main
  num_bodies, iterations, delta_t,
  bodies,       \* body bodies[num_bodies]
  timestep, i, j,
  unwritten,    \* history: the indices of input read without being written
  init0,        \* history: the bodies as constructed
  start,        \* history: the bodies when the current timestep began
  pre,          \* history: each body as passed to its latest integrate call
  evals,        \* history: fsum calls of the current timestep, per (i, j)
  divzero       \* history: some fsum call divided by a zero separation

vars == <<argv, input, cerr, pc, num_bodies, iterations, delta_t, bodies,
          timestep, i, j, unwritten, init0, start, pre, evals, divzero>>

config == <<num_bodies, iterations, delta_t, unwritten>>

history == <<init0, start, pre, evals, divzero>>

argc == Cardinality(DOMAIN argv)

Idx == 0..(num_bodies - 1)

NoEvals == [p \in Idx \X Idx |-> 0]

Init ==
  /\ argv \in {Argv(line) : line \in CommandLines}
  /\ input = [p \in DOMAIN argv |-> [written |-> FALSE, val |-> 0]]
  /\ cerr = [p \in DOMAIN argv |-> "none"]
  /\ pc = "parse"
  /\ num_bodies = 0
  /\ iterations = 0
  /\ delta_t = 0
  /\ bodies = <<>>
  /\ timestep = 0
  /\ i = 0
  /\ j = 0
  /\ unwritten = {}
  /\ init0 = <<>>
  /\ start = <<>>
  /\ pre = <<>>
  /\ evals = <<>>
  /\ divzero = FALSE

\* input_verify_stoi(inputs, input): a cell is assigned only when std::stoi
\* returns; on an exception the message is written and the cell is skipped
InputVerifyStoi ==
  /\ pc = "parse"
  /\ input' = [p \in DOMAIN argv |->
                 IF p >= 1 /\ stoi(argv[p]).kind = "ok"
                 THEN [written |-> TRUE, val |-> stoi(argv[p]).val]
                 ELSE input[p]]
  /\ cerr' = [p \in DOMAIN argv |-> IF p >= 1 THEN Message(argv[p]) ELSE "none"]
  /\ pc' = "config"
  /\ UNCHANGED <<argv, config, bodies, timestep, i, j, history>>

\* the value read from a cell: what was written, else whatever is there
ReadInt(cell, garbage) == IF cell.written THEN cell.val ELSE garbage

Configure ==
  /\ pc = "config"
  /\ \E garbage \in [1..3 -> GarbageInts] :
       /\ num_bodies' = IF argc > 1 THEN ReadInt(input[1], garbage[1])
                                    ELSE DefaultBodies
       /\ iterations' = IF argc > 2 THEN ReadInt(input[2], garbage[2])
                                    ELSE DefaultIterations
       /\ delta_t'    = IF argc > 3 THEN ReadInt(input[3], garbage[3])
                                    ELSE DefaultStep
  /\ unwritten' = {p \in 1..3 : argc > p /\ ~input[p].written}
  /\ pc' = "create"
  /\ UNCHANGED <<argv, input, cerr, bodies, timestep, i, j, history>>

\* body bodies[num_bodies]: every body is constructed with values of its own.
\* With num_bodies <= 0 the array has no element any loop visits.  Runs
\* larger than the bounds (the defaults among them) are not followed.
CreateBodies ==
  /\ pc = "create"
  /\ num_bodies <= MaxBodies
  /\ iterations <= MaxIterations
  /\ \E population \in [Idx -> InitBodies] :
       /\ bodies' = population
       /\ init0' = population
       /\ start' = population
       /\ pre' = population
  /\ evals' = NoEvals
  /\ timestep' = 0
  /\ pc' = "for_t"
  /\ UNCHANGED <<argv, input, cerr, config, i, j, divzero>>

\* the loop test off by one
LoopCondInclusive(t, n) == t <= n

LoopCond(t, n) == t < n

BeginTimestep ==
  /\ pc = "for_t"
  /\ LoopCond(timestep, iterations)
  /\ i' = 0
  /\ start' = bodies
  /\ evals' = NoEvals
  /\ pc' = "for_i"
  /\ UNCHANGED <<argv, input, cerr, config, bodies, timestep, j, init0, pre,
                 divzero>>

Terminate ==
  /\ pc = "for_t"
  /\ ~LoopCond(timestep, iterations)
  /\ pc' = "done"
  /\ UNCHANGED <<argv, input, cerr, config, bodies, timestep, i, j, history>>

ResetForce ==
  /\ pc = "for_i"
  /\ i < num_bodies
  /\ bodies' = [bodies EXCEPT ![i] = ZeroForce(@)]
  /\ j' = 0
  /\ pc' = "for_j"
  /\ UNCHANGED <<argv, input, cerr, config, timestep, i, history>>

EndAccumulate ==
  /\ pc = "for_i"
  /\ ~(i < num_bodies)
  /\ i' = 0
  /\ pc' = "ode"
  /\ UNCHANGED <<argv, input, cerr, config, bodies, timestep, j, history>>

\* the test j == i left out
IsSelfNever(a, b) == FALSE

\* each unordered pair evaluated once only
IsSelfOrLower(a, b) == b <= a

IsSelf(a, b) == b = a

SkipSelf ==
  /\ pc = "for_j"
  /\ j < num_bodies
  /\ IsSelf(i, j)
  /\ j' = j + 1
  /\ UNCHANGED <<argv, input, cerr, pc, config, bodies, timestep, i, history>>

Fsum ==
  /\ pc = "for_j"
  /\ j < num_bodies
  /\ ~IsSelf(i, j)
  /\ bodies' = [bodies EXCEPT ![i] = fsum(bodies[i], bodies[j])]
  /\ evals' = [evals EXCEPT ![<<i, j>>] = @ + 1]
  /\ divzero' = (divzero \/ Cube(bodyd(bodies[i], bodies[j])) = Zero)
  /\ j' = j + 1
  /\ UNCHANGED <<argv, input, cerr, pc, config, timestep, i, init0, start, pre>>

\* the Euler step of body i fused into the accumulation loop
NextBodyFused ==
  /\ pc = "for_j"
  /\ ~(j < num_bodies)
  /\ bodies' = [bodies EXCEPT ![i] = integrate(@, IntToD(delta_t))]
  /\ i' = i + 1
  /\ pc' = "for_i"
  /\ UNCHANGED <<argv, input, cerr, config, timestep, j, history>>

NextBody ==
  /\ pc = "for_j"
  /\ ~(j < num_bodies)
  /\ i' = i + 1
  /\ pc' = "for_i"
  /\ UNCHANGED <<argv, input, cerr, config, bodies, timestep, j, history>>

Integrate ==
  /\ pc = "ode"
  /\ i < num_bodies
  /\ bodies' = [bodies EXCEPT ![i] = integrate(bodies[i], IntToD(delta_t))]
  /\ pre' = [pre EXCEPT ![i] = bodies[i]]
  /\ i' = i + 1
  /\ UNCHANGED <<argv, input, cerr, pc, config, timestep, j, init0, start,
                 evals, divzero>>

EndIntegrate ==
  /\ pc = "ode"
  /\ ~(i < num_bodies)
  /\ pc' = "print"
  /\ UNCHANGED <<argv, input, cerr, config, bodies, timestep, i, j, history>>

\* the output loop reads the bodies only; then timestep++
Output ==
  /\ pc = "print"
  /\ timestep' = timestep + 1
  /\ pc' = "for_t"
  /\ UNCHANGED <<argv, input, cerr, config, bodies, i, j, history>>

Next ==
  \/ InputVerifyStoi
  \/ Configure
  \/ CreateBodies
  \/ BeginTimestep
  \/ Terminate
  \/ ResetForce
  \/ EndAccumulate
  \/ SkipSelf
  \/ Fsum
  \/ NextBody
  \/ Integrate
  \/ EndIntegrate
  \/ Output

Spec == Init /\ [][Next]_vars

\* main is one thread that never blocks: every enabled step is taken
FairSpec == Spec /\ WF_vars(Next)

(***************************************************************************)
(* Properties.                                                             *)
(***************************************************************************)
Created == pc \notin {"parse", "config", "create"}

dt == IntToD(delta_t)

Force(b) == <<b.f, b.g>>

Kinematic(b) == <<b.m, b.x, b.y, b.v, b.w>>

FiniteBody(b) ==
  /\ IsFinite(b.m) /\ IsFinite(b.x) /\ IsFinite(b.y) /\ IsFinite(b.v)
  /\ IsFinite(b.w) /\ IsFinite(b.f) /\ IsFinite(b.g)

Accumulating == pc \in {"for_i", "for_j"}

AllPairsEvaluated ==
  \A a, b \in Idx : evals[<<a, b>>] = IF a = b THEN 0 ELSE 1

-----------------------------------------------------------------------------
CounterInv ==
  (Created /\ num_bodies >= 1 /\ iterations >= 1) =>
     /\ timestep \in 0..iterations
     /\ pc \in {"for_i", "for_j", "ode", "print"} => timestep < iterations
     /\ pc = "done" => timestep = iterations

CounterStep ==
  /\ pc = "create" => timestep' = 0
  /\ (Created /\ num_bodies >= 1 /\ iterations >= 1) =>
       /\ timestep' # timestep => (pc = "print" /\ timestep' = timestep + 1)
       /\ pc = "print" => timestep' = timestep + 1
       /\ pc = "done" => (pc' = "done" /\ bodies' = bodies)

\* C1: with K >= 1 iterations and N >= 1 bodies the counter starts at 0, grows
\* by exactly 1 per completed timestep, the loop body runs only while
\* counter < K, the loop always reaches the terminal state with counter = K,
\* and nothing changes the bodies after that.
C1_ExactlyKTimesteps ==
  /\ []CounterInv
  /\ [][CounterStep]_vars
  /\ (pc = "for_t" /\ timestep = 0 /\ num_bodies >= 1 /\ iterations >= 1)
        ~> (pc = "done" /\ timestep = iterations)

C1_Witness ==
  pc = "done" /\ num_bodies >= 2 /\ iterations >= 2 /\ timestep = iterations

-----------------------------------------------------------------------------
TwoBodyScenario ==
  /\ Created
  /\ num_bodies = 2
  /\ delta_t = 1
  /\ init0 = [b \in 0..1 |->
                IF b = 0 THEN Body(IntToD(1), Zero, Zero, Zero, Zero)
                         ELSE Body(IntToD(1), IntToD(10), Zero, Zero, Zero)]

AfterFirstStep == pc = "print" /\ timestep = 0

TwoBodyForceVelocity ==
  /\ Force(bodies[0]) = <<Lit(101, -4), Zero>>
  /\ Force(bodies[1]) = <<Lit(-101, -4), Zero>>
  /\ <<bodies[0].v, bodies[0].w>> = <<Lit(101, -4), Zero>>
  /\ <<bodies[1].v, bodies[1].w>> = <<Lit(-101, -4), Zero>>

\* C2 as stated: after one timestep of the two-body scenario the forces are
\* (0.0101, 0) and (-0.0101, 0), the velocities (0.0101, 0) and (-0.0101, 0),
\* and both positions are unchanged, (0, 0) and (10, 0).
C2_PositionUnchanged ==
  (TwoBodyScenario /\ AfterFirstStep) =>
     /\ TwoBodyForceVelocity
     /\ <<bodies[0].x, bodies[0].y>> = <<Zero, Zero>>
     /\ <<bodies[1].x, bodies[1].y>> = <<IntToD(10), Zero>>

\* C2 amended: after one timestep of the two-body scenario the forces are
\* (0.0101, 0) and (-0.0101, 0), the velocities (0.0101, 0) and (-0.0101, 0),
\* and the positions have moved by dt times the new velocities, to
\* (0.0101, 0) and (9.9899, 0).
C2_TwoBodyStep ==
  (TwoBodyScenario /\ AfterFirstStep) =>
     /\ TwoBodyForceVelocity
     /\ <<bodies[0].x, bodies[0].y>> = <<Lit(101, -4), Zero>>
     /\ <<bodies[1].x, bodies[1].y>> = <<Lit(99899, -4), Zero>>

C2_Witness == TwoBodyScenario /\ AfterFirstStep

-----------------------------------------------------------------------------
Single == Created /\ num_bodies = 1

\* the body has been integrated since start was taken
IntegratedThisStep ==
  \/ pc = "ode" /\ i >= 1
  \/ pc = "print"
  \/ pc \in {"for_t", "done"} /\ timestep >= 1

\* C3 as stated: a single body has zero force, and its velocity and its
\* position equal their initial values in every state of the run.
C3_SingleBodyAtRest ==
  Single =>
     /\ Force(bodies[0]) = <<Zero, Zero>>
     /\ Kinematic(bodies[0]) = Kinematic(init0[0])

\* C3 amended: a single body has zero force and its initial velocity in every
\* state of the run; each timestep adds dt * velocity to its position, which
\* therefore equals its initial value for the whole run only when
\* dt * velocity is zero.
C3_SingleBodyDrifts ==
  Single =>
     /\ Force(bodies[0]) = <<Zero, Zero>>
     /\ <<bodies[0].v, bodies[0].w>> = <<init0[0].v, init0[0].w>>
     /\ bodies[0].x = IF IntegratedThisStep
                      THEN DAdd(start[0].x, DMul(dt, init0[0].v))
                      ELSE start[0].x
     /\ bodies[0].y = IF IntegratedThisStep
                      THEN DAdd(start[0].y, DMul(dt, init0[0].w))
                      ELSE start[0].y
     /\ DMul(dt, init0[0].v) = Zero => bodies[0].x = init0[0].x
     /\ DMul(dt, init0[0].w) = Zero => bodies[0].y = init0[0].y

C3_Witness ==
  /\ Single
  /\ pc = "done"
  /\ timestep >= 2
  /\ init0[0].v # Zero
  /\ bodies[0].v = init0[0].v
  /\ bodies[0].x # init0[0].x

-----------------------------------------------------------------------------
\* the calls fsum(bodies[a], bodies[b]) made so far in the current timestep
Evaluated(a, b) ==
  /\ a # b
  /\ \/ pc \in {"ode", "print"}
     \/ pc \in {"for_t", "done"} /\ timestep >= 1
     \/ Accumulating /\ a < i
     \/ pc = "for_j" /\ a = i /\ b < j

EvalsInv ==
  Created =>
     /\ \A a, b \in Idx : evals[<<a, b>>] = IF Evaluated(a, b) THEN 1 ELSE 0
     /\ (pc \in {"ode", "print"} /\ num_bodies >= 0) =>
          Cardinality({p \in Idx \X Idx : evals[p] = 1})
             = num_bodies * (num_bodies - 1)

EvalStep ==
  (pc = "for_j" /\ pc' = "for_j") =>
     /\ \A b \in Idx \ {i} : bodies'[b] = bodies[b]
     /\ Kinematic(bodies'[i]) = Kinematic(bodies[i])
     /\ j = i => bodies' = bodies

\* C4: in every timestep fsum is called once for each ordered pair (i, j),
\* i # j, never for a pair (i, i), N * (N - 1) times in all, and a call for
\* (i, j) changes nothing but the force of body i.
C4_PairwiseEvaluations == []EvalsInv /\ [][EvalStep]_vars

C4_Witness ==
  /\ pc = "ode"
  /\ num_bodies = 3
  /\ Cardinality({p \in Idx \X Idx : evals[p] = 1}) = 6
  /\ evals[<<2, 0>>] = 1 /\ evals[<<0, 2>>] = 1 /\ evals[<<1, 1>>] = 0

-----------------------------------------------------------------------------
\* C5: no fsum call divides by a zero separation and no field of a body is
\* ever NaN or infinite, also when two bodies are at the same coordinates.
C5_NoDegenerateCorruption ==
  Created => (~divzero /\ \A b \in Idx : FiniteBody(bodies[b]))

-----------------------------------------------------------------------------
Default(p) ==
  IF p = 1 THEN DefaultBodies
  ELSE IF p = 2 THEN DefaultIterations ELSE DefaultStep

Configured(p) ==
  IF p = 1 THEN num_bodies ELSE IF p = 2 THEN iterations ELSE delta_t

\* C6: when the argument of a parameter is not a number or is out of the
\* range of int, the error is reported, the value the simulation uses for the
\* parameter is its default (10 bodies, 100 iterations, step 1), and no value
\* is read from a cell the parser left unwritten.
C6_DefaultOnBadArgument ==
  pc \notin {"parse", "config"} =>
     \A p \in 1..3 :
        (argc > p /\ stoi(argv[p]).kind # "ok") =>
           /\ cerr[p] # "none"
           /\ Configured(p) = Default(p)
           /\ p \notin unwritten

-----------------------------------------------------------------------------
\* C7: the dt passed to integrate is strictly positive in every timestep.
C7_PositiveTimestep == pc = "ode" => delta_t > 0

-----------------------------------------------------------------------------
IntegrateCalled(b) == (pc = "ode" /\ b < i) \/ pc = "print"

\* C8: a call of integrate yields velocity' = velocity + dt * f / m and
\* position' = position + dt * velocity', with the velocity just updated, in
\* both coordinates, and leaves mass and force as they were.
C8_EulerStep ==
  Created =>
     \A b \in Idx :
        IntegrateCalled(b) =>
           /\ bodies[b].v = DAdd(pre[b].v, DDiv(DMul(dt, pre[b].f), pre[b].m))
           /\ bodies[b].w = DAdd(pre[b].w, DDiv(DMul(dt, pre[b].g), pre[b].m))
           /\ bodies[b].x = DAdd(pre[b].x, DMul(dt, bodies[b].v))
           /\ bodies[b].y = DAdd(pre[b].y, DMul(dt, bodies[b].w))
           /\ bodies[b].m = pre[b].m
           /\ Force(bodies[b]) = Force(pre[b])

C8_Witness ==
  /\ pc = "print"
  /\ \E b \in Idx :
       /\ FiniteBody(bodies[b])
       /\ bodies[b].v # pre[b].v
       /\ bodies[b].x # pre[b].x
       /\ bodies[b].x # DAdd(pre[b].x, DMul(dt, pre[b].v))

-----------------------------------------------------------------------------
\* the force on body b due to body a alone, from the given population
PairForce(pop, b, a) ==
  <<DMul(fscal(pop[b], pop[a]), xvec(pop[b], pop[a])),
    DMul(fscal(pop[b], pop[a]), yvec(pop[b], pop[a]))>>

\* the sum, from zero, of the forces on body b due to the bodies a < n, a # b
RECURSIVE ForceSum(_, _, _)
ForceSum(pop, b, n) ==
  IF n = 0 THEN <<Zero, Zero>>
  ELSE IF n - 1 = b THEN ForceSum(pop, b, n - 1)
  ELSE CHOOSE r \in {<<DAdd(sum[1], term[1]), DAdd(sum[2], term[2])>> :
                        sum \in {ForceSum(pop, b, n - 1)},
                        term \in {PairForce(pop, b, n - 1)}} : TRUE

\* C9: in every timestep the force of body i is zero before the first
\* contribution of that timestep is added to it and is then the sum of the
\* contributions added so far, and when body i is integrated its force is
\* the sum of that timestep's contributions over all j # i and of nothing
\* else.
C9_NoForceCarryOver ==
  Created =>
     /\ pc = "for_j" => Force(bodies[i]) = ForceSum(start, i, j)
     /\ (pc = "ode" /\ i < num_bodies) =>
          Force(bodies[i]) = ForceSum(start, i, num_bodies)

C9_Witness ==
  /\ pc = "ode"
  /\ timestep >= 1
  /\ num_bodies >= 2
  /\ FiniteBody(bodies[0])
  /\ Force(start[0]) # <<Zero, Zero>>
  /\ Force(bodies[0]) # <<Zero, Zero>>
  /\ Force(bodies[0]) # Force(start[0])

-----------------------------------------------------------------------------
\* C10: in every timestep all pairwise evaluations are made before any body
\* is integrated, and until the last of them mass, position and velocity of
\* every body are those the timestep began with; the number of bodies and the
\* mass of each are the same in every state of the run.
C10_AccumulateThenIntegrate ==
  Created =>
     /\ DOMAIN bodies = Idx
     /\ \A b \in Idx : bodies[b].m = init0[b].m
     /\ (Accumulating \/ (pc = "ode" /\ i = 0)) =>
          \A b \in Idx : Kinematic(bodies[b]) = Kinematic(start[b])
     /\ pc = "ode" => AllPairsEvaluated

C10_Witness ==
  /\ pc = "ode" /\ i = 0
  /\ timestep >= 1
  /\ num_bodies = 3
  /\ AllPairsEvaluated
  /\ \E b \in Idx : bodies[b].x # init0[b].x /\ FiniteBody(bodies[b])

=============================================================================
